---- MODULE Spec2Model ----
(***************************************************************************)
(* A model of the task manager of src/main.py: one SQLite file tasks.db    *)
(* holding the table tasks(id INTEGER PRIMARY KEY AUTOINCREMENT,           *)
(* description TEXT NOT NULL, progress INTEGER NOT NULL DEFAULT 0), one    *)
(* shared aiosqlite connection opened by app_lifespan, four tools and      *)
(* three resources.                                                        *)
(*                                                                         *)
(* Strings built by the handlers are modelled by their parts: the f-string *)
(* "Added task {id}: '{description}'" is the record                        *)
(* [kind |-> "Added", id |-> ..., description |-> ...], a JSON document is *)
(* the record (or sequence of records) json.dumps serialises.              *)
(***************************************************************************)
EXTENDS Integers, Sequences, FiniteSets, TLC

\* ------------------------------------------------------------------ bounds
\* The number of rows the model inserts over one history (caps sqlite_sequence).
MaxAdds == 3

\* Python's None, passed where a description is expected.
None == "<None>"

\* The descriptions the callers pass: a non-empty text and the empty text.
Descriptions == {"write spec", ""}

\* The progress values the callers pass: below and above the 0-100 range.
ProgressValues == {-5, 150}

\* The ids the callers name: 0 is never a rowid, the others may or may not exist.
TaskIds == 0..MaxAdds

VARIABLES
    disk,        \* tasks.db as committed: [exists, rows, seq]
    conn,        \* the aiosqlite connection: [state, rows, seq, intx]
    _db,         \* the module global _db: "None" or "conn"
    ctx,         \* the lifespan context's db (AppContext.db): "None" or "conn"
    session,     \* "UNINITIALIZED" or "READY"
    last,        \* the last call: its name, arguments and result
    everIds,     \* history: every id a row of the table ever had
    deletedIds,  \* history: every id a successful delete_task removed
    returned,    \* history: the ids returned by successful add_task calls, in order
    twice,       \* history: the last call repeated a successful delete_task of the same id
    reqs,        \* the requests in flight, one per slot: the handler's position and locals
    txn,         \* the slots whose statements are in the connection's open transaction
    done         \* history: what became of the call that returned last

\* The variables of the interleaved handlers; the sequential steps leave them alone.
cvars == <<reqs, txn, done>>

vars == <<disk, conn, _db, ctx, session, last, everIds, deletedIds, returned, twice,
          reqs, txn, done>>

\* ------------------------------------------------------------- the storage
\* A row of the table tasks.
Row(id, description, progress) ==
    [id |-> id, description |-> description, progress |-> progress]

Ids(rows) == {r.id : r \in rows}

Max2(a, b) == IF a >= b THEN a ELSE b

MaxId(rows) == IF rows = {} THEN 0 ELSE CHOOSE m \in Ids(rows) : \A i \in Ids(rows) : i <= m

\* Mutant: a plain INTEGER PRIMARY KEY without AUTOINCREMENT, which takes one
\* more than the largest rowid now in the table.
NextRowid_NoAutoincrement(c) == MaxId(c.rows) + 1

\* Mutant: the id taken from the number of rows.
NextRowid_CountRows(c) == Cardinality(c.rows) + 1

\* AUTOINCREMENT: one more than the largest rowid the table ever held, which
\* sqlite_sequence records (seq), so the id of a deleted row is not used again.
NextRowid(c) == Max2(c.seq, MaxId(c.rows)) + 1

\* The file tasks.db before it exists.
NoFile == [exists |-> FALSE, rows |-> {}, seq |-> 0]

\* No connection object.
NoConn == [state |-> "none", rows |-> {}, seq |-> 0, intx |-> FALSE]

\* Mutant: the table is recreated without the os.path.exists test.
ensure_db_exists_Recreate(d) == [exists |-> TRUE, rows |-> {}, seq |-> 0]

\* ensure_db_exists: the file and the empty table are created when the file
\* is absent; an existing file is left alone.
ensure_db_exists(d) ==
    IF ~d.exists THEN [exists |-> TRUE, rows |-> {}, seq |-> 0] ELSE d

\* aiosqlite.connect("tasks.db"): a connection that sees the committed file.
Connect(d) == [state |-> "open", rows |-> d.rows, seq |-> d.seq, intx |-> FALSE]

\* db.close(): what was not committed is rolled back with the connection.
Close(c) == [state |-> "closed", rows |-> {}, seq |-> 0, intx |-> FALSE]

\* db.commit(): the connection's transaction becomes the content of the file.
CommitDisk(c, d) == [exists |-> d.exists, rows |-> c.rows, seq |-> c.seq]

CommitConn(c) == [c EXCEPT !.intx = FALSE]

\* Mutant: the column description without NOT NULL.
InsertRow_Nullable(c, description) ==
    LET id == Max2(c.seq, MaxId(c.rows)) + 1 IN
    [conn |-> [c EXCEPT !.rows = c.rows \cup {Row(id, description, 0)},
                        !.seq = id, !.intx = TRUE],
     error |-> "", lastrowid |-> id]

\* INSERT INTO tasks(description) VALUES (?): NOT NULL rejects None (and only
\* None); the row gets the next rowid and the default progress 0. The sqlite3
\* module opens a transaction before the statement runs.
InsertRow(c, description) ==
    IF description = None
    THEN [conn |-> [c EXCEPT !.intx = TRUE], error |-> "IntegrityError", lastrowid |-> 0]
    ELSE LET id == NextRowid(c) IN
         [conn |-> [c EXCEPT !.rows = c.rows \cup {Row(id, description, 0)},
                             !.seq = id, !.intx = TRUE],
          error |-> "", lastrowid |-> id]

\* Mutant: the progress clamped to the percentage range 0..100.
UpdateRow_Clamped(c, task_id, progress) ==
    LET p == IF progress < 0 THEN 0 ELSE IF progress > 100 THEN 100 ELSE progress IN
    [conn |-> [c EXCEPT !.rows = {IF r.id = task_id
                                  THEN [r EXCEPT !.progress = p]
                                  ELSE r : r \in c.rows},
                        !.intx = TRUE],
     rowcount |-> Cardinality({r \in c.rows : r.id = task_id})]

\* Mutant: INSERT OR REPLACE, which creates the row an UPDATE would not find.
UpdateRow_Upsert(c, task_id, progress) ==
    [conn |-> [c EXCEPT !.rows = {r \in c.rows : r.id # task_id}
                                 \cup {Row(task_id, "", progress)},
                        !.intx = TRUE],
     rowcount |-> Cardinality({r \in c.rows : r.id = task_id})]

\* Mutant: the UPDATE without its WHERE clause.
UpdateRow_AllRows(c, task_id, progress) ==
    [conn |-> [c EXCEPT !.rows = {[r EXCEPT !.progress = progress] : r \in c.rows},
                        !.intx = TRUE],
     rowcount |-> Cardinality(c.rows)]

\* UPDATE tasks SET progress = ? WHERE id = ?
UpdateRow(c, task_id, progress) ==
    [conn |-> [c EXCEPT !.rows = {IF r.id = task_id
                                  THEN [r EXCEPT !.progress = progress]
                                  ELSE r : r \in c.rows},
                        !.intx = TRUE],
     rowcount |-> Cardinality({r \in c.rows : r.id = task_id})]

\* Mutant: a soft delete, which reports the row deleted and keeps it.
DeleteRow_Soft(c, task_id) ==
    [conn |-> [c EXCEPT !.intx = TRUE],
     rowcount |-> Cardinality({r \in c.rows : r.id = task_id})]

\* DELETE FROM tasks WHERE id = ?
DeleteRow(c, task_id) ==
    [conn |-> [c EXCEPT !.rows = {r \in c.rows : r.id # task_id}, !.intx = TRUE],
     rowcount |-> Cardinality({r \in c.rows : r.id = task_id})]

\* SELECT id, description, progress FROM tasks: a scan of the rowid b-tree,
\* so the rows come in ascending id.
RECURSIVE SelectAll(_)
SelectAll(rows) ==
    IF rows = {} THEN <<>>
    ELSE LET r == CHOOSE x \in rows : \A y \in rows : x.id <= y.id
         IN <<r>> \o SelectAll(rows \ {r})

\* SELECT id, description, progress FROM tasks WHERE id = ? ; fetchone()
SelectOne(c, task_id) ==
    LET found == {r \in c.rows : r.id = task_id} IN
    IF found = {} THEN <<>> ELSE <<CHOOSE r \in found : TRUE>>

\* ------------------------------------------------- the repository functions
\* add_task_db: execute, commit, return cursor.lastrowid. An exception of
\* execute leaves the function before the commit.
add_task_db(c, d, description) ==
    LET e == InsertRow(c, description) IN
    IF e.error # ""
    THEN [conn |-> e.conn, disk |-> d, raised |-> e.error, value |-> 0]
    ELSE [conn |-> CommitConn(e.conn), disk |-> CommitDisk(e.conn, d),
          raised |-> "", value |-> e.lastrowid]

\* update_task_db: execute, commit, return cursor.rowcount > 0.
update_task_db(c, d, task_id, progress) ==
    LET e == UpdateRow(c, task_id, progress) IN
    [conn |-> CommitConn(e.conn), disk |-> CommitDisk(e.conn, d),
     raised |-> "", value |-> e.rowcount > 0]

\* Mutant: cursor.rowcount >= 0 in place of cursor.rowcount > 0.
delete_task_db_RowcountGeq(c, d, task_id) ==
    LET e == [conn |-> [c EXCEPT !.rows = {r \in c.rows : r.id # task_id}, !.intx = TRUE],
              rowcount |-> Cardinality({r \in c.rows : r.id = task_id})] IN
    [conn |-> [e.conn EXCEPT !.intx = FALSE],
     disk |-> [exists |-> d.exists, rows |-> e.conn.rows, seq |-> e.conn.seq],
     raised |-> "", value |-> e.rowcount >= 0]

\* delete_task_db: execute, commit, return cursor.rowcount > 0.
delete_task_db(c, d, task_id) ==
    LET e == DeleteRow(c, task_id) IN
    [conn |-> CommitConn(e.conn), disk |-> CommitDisk(e.conn, d),
     raised |-> "", value |-> e.rowcount > 0]

\* Mutant: the scan in descending id order (ORDER BY id DESC).
list_tasks_db_Descending(c) ==
    LET asc == SelectAll(c.rows) IN
    [i \in 1..Len(asc) |-> asc[Len(asc) + 1 - i]]

\* list_tasks_db: the rows as fetchall() returns them.
list_tasks_db(c) == SelectAll(c.rows)

\* ------------------------------------------------------------ the results
Raised(exc) == [kind |-> "raise", exc |-> exc]

\* f"Added task {task_id}: '{description}'"
AddedText(task_id, description) ==
    [kind |-> "Added", id |-> task_id, description |-> description]

\* f"Updated task {task_id} to progress {progress}%"
UpdatedText(task_id, progress) ==
    [kind |-> "Updated", id |-> task_id, progress |-> progress]

\* f"Deleted task {task_id}."
DeletedText(task_id) == [kind |-> "Deleted", id |-> task_id]

\* f"Task {task_id} not found."
NotFoundText(task_id) == [kind |-> "NotFound", id |-> task_id]

\* "No tasks found." or the lines f"{tid}: {desc} ({prog}%)" joined by newlines
ListText(tasks) ==
    IF tasks = <<>> THEN [kind |-> "NoTasks"]
    ELSE [kind |-> "Lines",
          lines |-> [i \in 1..Len(tasks) |->
                        Row(tasks[i].id, tasks[i].description, tasks[i].progress)]]

\* json.dumps of the list of {id, description, progress}
AllJson(rows) ==
    [kind |-> "JsonList",
     payload |-> [i \in 1..Len(rows) |->
                     Row(rows[i].id, rows[i].description, rows[i].progress)]]

\* json.dumps of one row, or of {"error": "Task not found", "id": task_id}
TaskJson(row, task_id) ==
    IF row = <<>>
    THEN [kind |-> "JsonError", error |-> "Task not found", id |-> task_id]
    ELSE [kind |-> "JsonTask", id |-> row[1].id, description |-> row[1].description,
          progress |-> row[1].progress]

\* json.dumps({"low": 0, "medium": 1, "high": 2})
PrioritiesJson == [kind |-> "JsonPriorities", low |-> 0, medium |-> 1, high |-> 2]

\* The record of a call.
Call(op, task_id, description, progress, result) ==
    [op |-> op, task_id |-> task_id, description |-> description,
     progress |-> progress, result |-> result]

\* The names of the requests that may be in flight together.
Slots == {"A", "B"}

\* A slot with no request in it.
IdleReq ==
    [op |-> "idle", task_id |-> 0, description |-> None, progress |-> 0, pc |-> "idle",
     lastrowid |-> 0, rowcount |-> 0, rows |-> {}, committed |-> FALSE, dirty |-> FALSE]

\* No call has returned yet.
NoneDone == [slot |-> "none", op |-> "none", rid |-> 0, changed |-> FALSE,
             committed |-> FALSE, dirty |-> FALSE, badconn |-> FALSE, others |-> {}]

\* ------------------------------------------------------------------- Init
Init ==
    /\ reqs = [s \in Slots |-> IdleReq]
    /\ txn = {}
    /\ done = NoneDone
    /\ disk = NoFile
    /\ conn = NoConn
    /\ _db = "None"
    /\ ctx = "None"
    /\ session = "UNINITIALIZED"
    /\ last = Call("none", 0, None, 0, [kind |-> "none"])
    /\ everIds = {}
    /\ deletedIds = {}
    /\ returned = <<>>
    /\ twice = FALSE

\* History kept by every step: the ids the table has held.
Track == everIds' = everIds \cup Ids(disk'.rows) \cup Ids(conn'.rows)

\* ---------------------------------------------------------------- actions
\* Mutant: app_lifespan without its global statement, so that _db = db binds a
\* local name and the module-level reference stays None.
app_lifespan_startup_NoGlobal ==
    /\ session = "UNINITIALIZED"
    /\ disk' = ensure_db_exists(disk)
    /\ conn' = Connect(disk')
    /\ _db' = "None"
    /\ ctx' = "conn"
    /\ session' = "READY"
    /\ last' = Call("startup", 0, None, 0, [kind |-> "ok"])
    /\ twice' = FALSE
    /\ UNCHANGED <<deletedIds, returned>>
    /\ Track
    /\ UNCHANGED cvars

\* app_lifespan up to the yield: ensure_db_exists, connect, _db = db.
app_lifespan_startup ==
    /\ session = "UNINITIALIZED"
    /\ disk' = ensure_db_exists(disk)
    /\ conn' = Connect(disk')
    /\ _db' = "conn"
    /\ ctx' = "conn"
    /\ session' = "READY"
    /\ last' = Call("startup", 0, None, 0, [kind |-> "ok"])
    /\ twice' = FALSE
    /\ UNCHANGED <<deletedIds, returned>>
    /\ Track
    /\ UNCHANGED cvars

\* app_lifespan after the yield: db.close(), _db = None.
app_lifespan_shutdown ==
    /\ session = "READY"
    /\ conn' = Close(conn)
    /\ _db' = "None"
    /\ ctx' = "None"
    /\ session' = "UNINITIALIZED"
    /\ last' = Call("shutdown", 0, None, 0, [kind |-> "ok"])
    /\ twice' = FALSE
    /\ UNCHANGED <<disk, deletedIds, returned>>
    /\ Track
    /\ UNCHANGED cvars

\* ensure_db_exists called on its own.
ensure_db_exists_call ==
    /\ disk' = ensure_db_exists(disk)
    /\ last' = Call("ensure_db_exists", 0, None, 0, [kind |-> "ok"])
    /\ twice' = FALSE
    /\ UNCHANGED <<conn, _db, ctx, session, deletedIds, returned>>
    /\ Track
    /\ UNCHANGED cvars

\* The tool add_task.
add_task(description) ==
    /\ session = "READY"
    /\ ctx = "conn"
    /\ description = None \/ conn.seq < MaxAdds
    /\ LET r == add_task_db(conn, disk, description) IN
       /\ conn' = r.conn
       /\ disk' = r.disk
       /\ last' = Call("add_task", 0, description, 0,
                       IF r.raised # "" THEN Raised(r.raised)
                       ELSE AddedText(r.value, description))
       /\ returned' = IF r.raised # "" THEN returned ELSE Append(returned, r.value)
    /\ twice' = FALSE
    /\ UNCHANGED <<_db, ctx, session, deletedIds>>
    /\ Track
    /\ UNCHANGED cvars

\* The tool update_task.
update_task(task_id, progress) ==
    /\ session = "READY"
    /\ ctx = "conn"
    /\ LET r == update_task_db(conn, disk, task_id, progress) IN
       /\ conn' = r.conn
       /\ disk' = r.disk
       /\ last' = Call("update_task", task_id, None, progress,
                       IF r.value THEN UpdatedText(task_id, progress)
                       ELSE NotFoundText(task_id))
    /\ twice' = FALSE
    /\ UNCHANGED <<_db, ctx, session, deletedIds, returned>>
    /\ Track
    /\ UNCHANGED cvars

\* The tool delete_task.
delete_task(task_id) ==
    /\ session = "READY"
    /\ ctx = "conn"
    /\ LET r == delete_task_db(conn, disk, task_id) IN
       /\ conn' = r.conn
       /\ disk' = r.disk
       /\ last' = Call("delete_task", task_id, None, 0,
                       IF r.value THEN DeletedText(task_id)
                       ELSE NotFoundText(task_id))
       /\ deletedIds' = IF r.value THEN deletedIds \cup {task_id} ELSE deletedIds
    /\ twice' = (/\ last.op = "delete_task"
                 /\ last.task_id = task_id
                 /\ last.result.kind = "Deleted")
    /\ UNCHANGED <<_db, ctx, session, returned>>
    /\ Track
    /\ UNCHANGED cvars

\* The tool list_tasks.
list_tasks ==
    /\ session = "READY"
    /\ ctx = "conn"
    /\ last' = Call("list_tasks", 0, None, 0, ListText(list_tasks_db(conn)))
    /\ twice' = FALSE
    /\ UNCHANGED <<disk, conn, _db, ctx, session, everIds, deletedIds, returned>>
    /\ UNCHANGED cvars

\* The resource tasks://all; with _db None, db.execute raises AttributeError.
get_all_tasks ==
    /\ last' = Call("get_all_tasks", 0, None, 0,
                    IF _db = "None" THEN Raised("AttributeError")
                    ELSE AllJson(list_tasks_db(conn)))
    /\ twice' = FALSE
    /\ UNCHANGED <<disk, conn, _db, ctx, session, everIds, deletedIds, returned>>
    /\ UNCHANGED cvars

\* Mutant: a missing row raised as an error instead of returned as a payload.
get_task_result_Raises(db, c, task_id) ==
    IF db = "None" THEN [kind |-> "raise", exc |-> "AttributeError"]
    ELSE IF {r \in c.rows : r.id = task_id} = {}
         THEN [kind |-> "raise", exc |-> "LookupError"]
         ELSE LET r == CHOOSE x \in c.rows : x.id = task_id
              IN [kind |-> "JsonTask", id |-> r.id, description |-> r.description,
                  progress |-> r.progress]

\* What tasks://{task_id} returns.
get_task_result(db, c, task_id) ==
    IF db = "None" THEN Raised("AttributeError")
    ELSE TaskJson(SelectOne(c, task_id), task_id)

\* The resource tasks://{task_id}.
get_task(task_id) ==
    /\ last' = Call("get_task", task_id, None, 0, get_task_result(_db, conn, task_id))
    /\ twice' = FALSE
    /\ UNCHANGED <<disk, conn, _db, ctx, session, everIds, deletedIds, returned>>
    /\ UNCHANGED cvars

\* Mutant: the priorities numbered from 1.
task_priorities_result_FromOne ==
    [kind |-> "JsonPriorities", low |-> 1, medium |-> 2, high |-> 3]

\* What config://task-priorities returns.
task_priorities_result == PrioritiesJson

\* The resource config://task-priorities.
task_priorities ==
    /\ last' = Call("task_priorities", 0, None, 0, task_priorities_result)
    /\ twice' = FALSE
    /\ UNCHANGED <<disk, conn, _db, ctx, session, everIds, deletedIds, returned>>
    /\ UNCHANGED cvars

AddTask == \E description \in Descriptions \cup {None} : add_task(description)
UpdateTask == \E task_id \in TaskIds, progress \in ProgressValues : update_task(task_id, progress)
DeleteTask == \E task_id \in TaskIds : delete_task(task_id)
GetTask == \E task_id \in TaskIds : get_task(task_id)

Next ==
    \/ app_lifespan_startup
    \/ app_lifespan_shutdown
    \/ ensure_db_exists_call
    \/ AddTask
    \/ UpdateTask
    \/ DeleteTask
    \/ list_tasks
    \/ get_all_tasks
    \/ GetTask
    \/ task_priorities

Spec == Init /\ [][Next]_vars

\* ------------------------------------------------ the interleaved handlers
\* Requests run as tasks of one event loop over the one shared connection:
\* a handler gives way at each await, and aiosqlite runs the awaited calls
\* (execute, commit, fetchall, close) one at a time in the order they were
\* made. A step below is a handler from one await to the next.

\* The rows the interleaved model inserts over one history.
MaxConcAdds == 2

\* The arguments the interleaved callers pass.
ConcDescriptions == {"write spec", "", None}
ConcTaskIds == {1}
ConcProgress == 150

\* The slots a read runs in. Two reads in flight together change nothing a
\* write and a read do not, so one slot is kept for them.
ReadSlots == {"B"}

\* No request is in flight.
AllIdle == \A s \in Slots : reqs[s].pc = "idle"

\* The exception of a call on the connection behind a reference, "" when the
\* reference is a connection that is open.
ConnError(ref, c) ==
    IF ref = "None" THEN "AttributeError"
    ELSE IF c.state # "open" THEN "ValueError"
    ELSE ""

\* Mutant: the id read from the connection when the handler returns (SELECT
\* last_insert_rowid()), not from the cursor of the call's own INSERT.
CursorLastrowid_OfConnection(r, c) == c.seq

\* cursor.lastrowid: the rowid of the INSERT this cursor ran, kept by the cursor.
CursorLastrowid(r, c) == r.lastrowid

\* What a write handler returns once its commit is done.
WriteResult(r, c) ==
    IF r.op = "add_task" THEN AddedText(CursorLastrowid(r, c), r.description)
    ELSE IF r.op = "update_task"
         THEN (IF r.rowcount > 0 THEN UpdatedText(r.task_id, r.progress)
               ELSE NotFoundText(r.task_id))
         ELSE (IF r.rowcount > 0 THEN DeletedText(r.task_id)
               ELSE NotFoundText(r.task_id))

\* Whether the statement of a write call changed the table.
Changed(r) == r.lastrowid > 0 \/ r.rowcount > 0

\* The account of a call that returns: the row its INSERT made, whether its
\* statement changed the table, whether that change is committed, whether it
\* read rows that were not committed, whether it met a connection that was
\* closed or None, and the other slots whose statements its commit committed.
DoneOf(s, r, committed, dirty, badconn, others) ==
    [slot |-> s, op |-> r.op, rid |-> r.lastrowid, changed |-> Changed(r),
     committed |-> committed, dirty |-> dirty, badconn |-> badconn, others |-> others]

\* A request as it waits for its next await to complete.
Req(op, task_id, description, progress, pc) ==
    [IdleReq EXCEPT !.op = op, !.task_id = task_id, !.description = description,
                    !.progress = progress, !.pc = pc]

\* add_task up to the end of db.execute(INSERT).
add_task_execute(s, description) ==
    /\ reqs[s].pc = "idle"
    /\ ctx # "None"
    /\ description = None \/ conn.seq < MaxConcAdds
    /\ LET r == Req("add_task", 0, description, 0, "commit")
           err == ConnError(ctx, conn)
           e == InsertRow(conn, description) IN
       IF err # ""
       THEN /\ last' = Call("add_task", 0, description, 0, Raised(err))
            /\ done' = DoneOf(s, r, FALSE, FALSE, TRUE, {})
            /\ UNCHANGED <<conn, reqs, txn>>
       ELSE IF e.error # ""
       THEN /\ conn' = e.conn
            /\ last' = Call("add_task", 0, description, 0, Raised(e.error))
            /\ done' = DoneOf(s, r, FALSE, FALSE, FALSE, {})
            /\ UNCHANGED <<reqs, txn>>
       ELSE /\ conn' = e.conn
            /\ reqs' = [reqs EXCEPT ![s] = [r EXCEPT !.lastrowid = e.lastrowid]]
            /\ txn' = txn \cup {s}
            /\ UNCHANGED <<last, done>>
    /\ UNCHANGED <<disk, _db, ctx, session, deletedIds, returned, twice>>
    /\ Track

\* update_task (progress given) or delete_task up to the end of db.execute.
change_task_execute(s, op, task_id, progress) ==
    /\ reqs[s].pc = "idle"
    /\ ctx # "None"
    /\ LET r == Req(op, task_id, None, progress, "commit")
           err == ConnError(ctx, conn)
           e == IF op = "update_task" THEN UpdateRow(conn, task_id, progress)
                ELSE DeleteRow(conn, task_id) IN
       IF err # ""
       THEN /\ last' = Call(op, task_id, None, progress, Raised(err))
            /\ done' = DoneOf(s, r, FALSE, FALSE, TRUE, {})
            /\ UNCHANGED <<conn, reqs, txn>>
       ELSE /\ conn' = e.conn
            /\ reqs' = [reqs EXCEPT ![s] = [r EXCEPT !.rowcount = e.rowcount]]
            /\ txn' = txn \cup {s}
            /\ UNCHANGED <<last, done>>
    /\ UNCHANGED <<disk, _db, ctx, session, deletedIds, returned, twice>>
    /\ Track

\* A write handler from db.commit() to its return: the commit makes durable
\* whatever the connection's transaction holds.
write_commit(s) ==
    /\ reqs[s].pc = "commit"
    /\ LET r == reqs[s]
           result == WriteResult(r, conn) IN
       IF conn.state = "open"
       THEN /\ disk' = CommitDisk(conn, disk)
            /\ conn' = CommitConn(conn)
            /\ txn' = {}
            /\ reqs' = [t \in Slots |->
                          IF t = s THEN IdleReq
                          ELSE IF t \in txn THEN [reqs[t] EXCEPT !.committed = TRUE]
                          ELSE reqs[t]]
            /\ last' = Call(r.op, r.task_id, r.description, r.progress, result)
            /\ done' = DoneOf(s, r, TRUE, FALSE, FALSE, txn \ {s})
            /\ returned' = IF r.op = "add_task" THEN Append(returned, result.id)
                           ELSE returned
            /\ deletedIds' = IF r.op = "delete_task" /\ r.rowcount > 0
                             THEN deletedIds \cup {r.task_id} ELSE deletedIds
       ELSE /\ last' = Call(r.op, r.task_id, r.description, r.progress,
                            Raised("ValueError"))
            /\ done' = DoneOf(s, r, r.committed, FALSE, TRUE, {})
            /\ reqs' = [reqs EXCEPT ![s] = IdleReq]
            /\ UNCHANGED <<disk, conn, txn, returned, deletedIds>>
    /\ UNCHANGED <<_db, ctx, session, twice>>
    /\ Track

\* A read handler up to the end of db.execute(SELECT): list_tasks through the
\* lifespan context's db, the resources through _db. The cursor is left on
\* what the connection sees, its own uncommitted transaction included. The
\* server hands out requests, for tools and resources alike, while the
\* lifespan context is entered.
read_execute(s, op, task_id) ==
    /\ reqs[s].pc = "idle"
    /\ ctx # "None"
    /\ LET ref == IF op = "list_tasks" THEN ctx ELSE _db
           r == Req(op, task_id, None, 0, "fetch")
           err == ConnError(ref, conn)
           seen == IF op = "get_task" THEN {x \in conn.rows : x.id = task_id}
                   ELSE conn.rows
           stored == IF op = "get_task" THEN {x \in disk.rows : x.id = task_id}
                     ELSE disk.rows IN
       IF err # ""
       THEN /\ last' = Call(op, task_id, None, 0, Raised(err))
            /\ done' = DoneOf(s, r, FALSE, FALSE, TRUE, {})
            /\ UNCHANGED reqs
       ELSE /\ reqs' = [reqs EXCEPT ![s] = [r EXCEPT !.rows = seen,
                                                     !.dirty = (seen # stored)]]
            /\ UNCHANGED <<last, done>>
    /\ UNCHANGED <<disk, conn, _db, ctx, session, everIds, deletedIds, returned, twice,
                   txn>>

\* A read handler from fetchall() or fetchone() to its return. Whether a scan
\* sees the changes the connection made after the SELECT began is undefined in
\* SQLite: fetchall() gives the rows as they were then or as they are now.
read_fetch(s) ==
    /\ reqs[s].pc = "fetch"
    /\ LET r == reqs[s] IN
       IF conn.state # "open"
       THEN /\ last' = Call(r.op, r.task_id, None, 0, Raised("ValueError"))
            /\ done' = DoneOf(s, r, FALSE, FALSE, TRUE, {})
       ELSE \E view \in (IF r.op = "get_task" THEN {r.rows} ELSE {r.rows, conn.rows}) :
               /\ last' = Call(r.op, r.task_id, None, 0,
                               IF r.op = "get_task"
                               THEN TaskJson(SelectAll(view), r.task_id)
                               ELSE IF r.op = "list_tasks"
                                    THEN ListText(SelectAll(view))
                                    ELSE AllJson(SelectAll(view)))
               /\ done' = DoneOf(s, r, FALSE,
                                 IF view = r.rows THEN r.dirty ELSE view # disk.rows,
                                 FALSE, {})
    /\ reqs' = [reqs EXCEPT ![s] = IdleReq]
    /\ UNCHANGED <<disk, conn, _db, ctx, session, everIds, deletedIds, returned, twice,
                   txn>>

\* app_lifespan up to the yield. The interleaved model follows one process
\* through its one lifespan: no connection was made before, no request is in
\* flight.
lifespan_startup ==
    /\ conn.state = "none"
    /\ AllIdle
    /\ app_lifespan_startup

\* app_lifespan's finally up to the end of await db.close(): the connection is
\* closed, its open transaction rolled back, and _db still refers to it.
lifespan_close ==
    /\ session = "READY"
    /\ conn.state = "open"
    /\ conn' = Close(conn)
    /\ txn' = {}
    /\ UNCHANGED <<disk, _db, ctx, session, last, everIds, deletedIds, returned, twice,
                   reqs, done>>

\* app_lifespan's finally after the await: _db = None, and the context ends.
lifespan_clear ==
    /\ session = "READY"
    /\ conn.state = "closed"
    /\ _db' = "None"
    /\ ctx' = "None"
    /\ session' = "UNINITIALIZED"
    /\ last' = Call("shutdown", 0, None, 0, [kind |-> "ok"])
    /\ UNCHANGED <<disk, conn, everIds, deletedIds, returned, twice, reqs, txn,
                   done>>

AddExecute == \E s \in Slots, description \in ConcDescriptions : add_task_execute(s, description)
UpdateExecute == \E s \in Slots, task_id \in ConcTaskIds : change_task_execute(s, "update_task", task_id, ConcProgress)
DeleteExecute == \E s \in Slots, task_id \in ConcTaskIds : change_task_execute(s, "delete_task", task_id, 0)
WriteCommit == \E s \in Slots : write_commit(s)
ListExecute == \E s \in ReadSlots : read_execute(s, "list_tasks", 0)
GetAllExecute == \E s \in ReadSlots : read_execute(s, "get_all_tasks", 0)
GetTaskExecute == \E s \in ReadSlots, task_id \in ConcTaskIds : read_execute(s, "get_task", task_id)
ReadFetch == \E s \in ReadSlots : read_fetch(s)

NextConc ==
    \/ lifespan_startup
    \/ lifespan_close
    \/ lifespan_clear
    \/ AddExecute
    \/ UpdateExecute
    \/ DeleteExecute
    \/ WriteCommit
    \/ ListExecute
    \/ GetAllExecute
    \/ GetTaskExecute
    \/ ReadFetch

SpecConc == Init /\ [][NextConc]_vars

\* ================================================================= claims
\* The set of the elements of a sequence.
Range(s) == {s[i] : i \in 1..Len(s)}

\* The descriptions that are valid and non-empty.
NonEmptyDescriptions == Descriptions \ {""}

\* C1: a successful add_task(d) with a non-empty d, followed by a list, returns
\* the previous records unchanged plus exactly one new record, whose
\* description is d, whose progress is 0 and whose id no row ever had before,
\* deleted rows included; the id is the one add_task reports.
C1_AddThenList ==
    [][ \A d \in NonEmptyDescriptions :
          (last'.op = "add_task" /\ last'.description = d /\ last'.result.kind = "Added")
          => \E r \in Range(list_tasks_db(conn')) :
                /\ r.description = d
                /\ r.progress = 0
                /\ r.id \notin everIds
                /\ r.id = last'.result.id
                /\ r \notin Range(list_tasks_db(conn))
                /\ Range(list_tasks_db(conn')) = Range(list_tasks_db(conn)) \cup {r}
                /\ Len(list_tasks_db(conn')) = Len(list_tasks_db(conn)) + 1
      ]_vars

\* C1 witness: an add of a non-empty description succeeded after a delete,
\* next to a row that was there before.
C1_Witness ==
    /\ last.op = "add_task"
    /\ last.result.kind = "Added"
    /\ last.description \in NonEmptyDescriptions
    /\ deletedIds # {}
    /\ Cardinality(conn.rows) >= 2

\* C2: update_task(id, p) on an id that exists sets that row's progress to
\* exactly p, whatever the integer, keeps its id and description, and returns
\* the "Updated task" text.
C2_UpdateExisting ==
    [][ \A id \in TaskIds, p \in ProgressValues :
          (/\ last'.op = "update_task" /\ last'.task_id = id /\ last'.progress = p
           /\ id \in Ids(conn.rows))
          => /\ last'.result = UpdatedText(id, p)
             /\ \E r \in conn.rows :
                   /\ r.id = id
                   /\ {x \in conn'.rows : x.id = id} = {Row(id, r.description, p)}
             /\ disk'.rows = conn'.rows
      ]_vars

\* C2 witness: an update to a progress above 100 succeeded and is stored.
C2_Witness ==
    /\ last.op = "update_task"
    /\ last.result.kind = "Updated"
    /\ last.progress = 150
    /\ \E r \in disk.rows :
          r.id = last.task_id /\ r.progress = 150 /\ r.description = "write spec"

\* C3: update_task(id, p) on an id that does not exist returns the not-found
\* text as a value and leaves the store as it was: the same rows with the same
\* fields, the same id counter, and no row with that id.
C3_UpdateMissing ==
    [][ \A id \in TaskIds :
          (last'.op = "update_task" /\ last'.task_id = id /\ id \notin Ids(conn.rows))
          => /\ last'.result = NotFoundText(id)
             /\ conn'.rows = conn.rows
             /\ conn'.seq = conn.seq
             /\ disk' = disk
             /\ id \notin Ids(conn'.rows)
      ]_vars

\* C3 witness: an update of a deleted id was answered not-found while other
\* rows are stored.
C3_Witness ==
    /\ last.op = "update_task"
    /\ last.result.kind = "NotFound"
    /\ last.task_id \in deletedIds
    /\ disk.rows # {}

\* C4: delete_task(id) on an id that exists removes it for good: in every
\* later state, whatever was added, updated, deleted, listed or restarted
\* since, no row of the connection or of the file has that id, no list holds
\* it, a lookup of it while the session is READY gives the not-found payload,
\* and no add_task has returned that id again.
C4_DeletePermanent ==
    \A id \in deletedIds :
        /\ id \notin Ids(conn.rows)
        /\ id \notin Ids(disk.rows)
        /\ \A i \in 1..Len(list_tasks_db(conn)) : list_tasks_db(conn)[i].id # id
        /\ session = "READY"
           => get_task_result(_db, conn, id)
                = [kind |-> "JsonError", error |-> "Task not found", id |-> id]
        /\ (last.op = "get_task" /\ last.task_id = id /\ session = "READY")
           => last.result.kind = "JsonError"
        /\ (last.op = "add_task" /\ last.result.kind = "Added") => last.result.id # id

\* C4 witness: a deleted id was looked up after a later add and a restart of
\* the session left other rows in the store.
C4_Witness ==
    /\ last.op = "get_task"
    /\ last.task_id \in deletedIds
    /\ last.result.kind = "JsonError"
    /\ session = "READY"
    /\ \E r \in conn.rows : r.id > last.task_id

\* C5: of two delete_task(id) calls in a row on an existing id, the first
\* returns the "Deleted task" text and removes the row, the second returns the
\* not-found text as a value and changes nothing in the store.
C5_DeleteTwice ==
    [][ \A id \in TaskIds :
          /\ (last'.op = "delete_task" /\ last'.task_id = id /\ id \in Ids(conn.rows))
             => (last'.result = DeletedText(id) /\ id \notin Ids(conn'.rows))
          /\ (/\ last.op = "delete_task" /\ last.task_id = id
              /\ last.result.kind = "Deleted"
              /\ last'.op = "delete_task" /\ last'.task_id = id)
             => /\ last'.result = NotFoundText(id)
                /\ conn'.rows = conn.rows
                /\ conn'.seq = conn.seq
                /\ disk' = disk
      ]_vars

\* C5 witness: the last two calls were delete_task of the same id, the first
\* successful, and rows remain in the store.
C5_Witness ==
    /\ twice
    /\ last.op = "delete_task"
    /\ last.result.kind = "NotFound"
    /\ disk.rows # {}

\* C6: ensure_db_exists on a file that exists, called on its own or by a later
\* startup, raises nothing and leaves the file's rows and id counter as they
\* were.
C6_InitIdempotent ==
    [][ (last'.op \in {"ensure_db_exists", "startup"} /\ disk.exists)
        => /\ disk' = disk
           /\ last'.result.kind = "ok"
           /\ last'.op = "startup" => (conn'.rows = disk.rows /\ conn'.seq = disk.seq)
      ]_vars

\* C6 witness: a later startup found a file that holds tasks and has seen a
\* delete.
C6_Witness ==
    /\ last.op = "startup"
    /\ disk.rows # {}
    /\ deletedIds # {}
    /\ disk.seq > MaxId(disk.rows)

\* No two rows share an id.
UniqueIds(rows) == Cardinality(Ids(rows)) = Cardinality(rows)

\* C7: the ids returned by successive successful adds are strictly positive
\* and strictly increasing, each greater than every id a row ever had
\* (deleted rows included); no two rows share an id; and no step changes the
\* id of a stored row: a stored id leaves the file only by a delete_task of
\* that id, with which its row goes, and an id enters it only as the id a
\* successful add_task returns.
C7_IdsMonotonicUniqueImmutable ==
    [][ /\ \A i \in 1..Len(returned') : returned'[i] > 0
        /\ \A i, j \in 1..Len(returned') : i < j => returned'[i] < returned'[j]
        /\ Len(returned') > Len(returned)
           => \A i \in everIds : returned'[Len(returned')] > i
        /\ UniqueIds(conn'.rows)
        /\ UniqueIds(disk'.rows)
        /\ \A r \in disk.rows :
              \/ \E x \in disk'.rows : x.id = r.id /\ x.description = r.description
              \/ /\ last'.op = "delete_task" /\ last'.task_id = r.id
                 /\ r.id \notin Ids(disk'.rows)
                 /\ Cardinality(disk'.rows) = Cardinality(disk.rows) - 1
        /\ \A x \in disk'.rows :
              \/ x.id \in Ids(disk.rows)
              \/ /\ last'.op = "add_task" /\ last'.result.kind = "Added"
                 /\ last'.result.id = x.id
                 /\ Cardinality(disk'.rows) = Cardinality(disk.rows) + 1
      ]_vars

\* C7 witness: an add returned an id after the row with the highest id had
\* been deleted, and the new id is above the deleted one.
C7_Witness ==
    /\ last.op = "add_task"
    /\ last.result.kind = "Added"
    /\ Len(returned) >= 2
    /\ returned[Len(returned) - 1] \in deletedIds
    /\ returned[Len(returned)] = last.result.id
    /\ disk.rows # {}

\* C8: add_task with an empty or null description fails with an error that
\* reaches the caller and stores nothing, so that in every state every stored
\* task has a non-empty description. The code refuses None alone: NOT NULL
\* lets the empty text through, and add_task("") stores a task.
C8_EmptyOrNullRejected ==
    /\ (last.op = "add_task" /\ last.description \in {"", None})
       => last.result.kind = "raise"
    /\ \A r \in disk.rows \cup conn.rows : r.description \notin {"", None}

\* What the code does for C8's inputs: add_task with None fails with the
\* IntegrityError of the NOT NULL constraint, which reaches the caller, and
\* stores nothing; add_task with the empty text succeeds and stores a row whose
\* description is the empty text; every stored task has a non-null description.
C8_NullRejectedEmptyStored ==
    [][ /\ (last'.op = "add_task" /\ last'.description = None)
           => /\ last'.result = Raised("IntegrityError")
              /\ conn'.rows = conn.rows
              /\ conn'.seq = conn.seq
              /\ disk' = disk
              /\ returned' = returned
        /\ (last'.op = "add_task" /\ last'.description = "")
           => /\ last'.result.kind = "Added"
              /\ Row(last'.result.id, "", 0) \in disk'.rows \ disk.rows
        /\ \A r \in disk'.rows \cup conn'.rows : r.description # None
      ]_vars

\* Both cases of C8 in one state: an add of None was refused while a task with
\* the empty description is stored.
C8_BothCases ==
    /\ last.op = "add_task"
    /\ last.description = None
    /\ last.result.kind = "raise"
    /\ \E r \in disk.rows : r.description = ""

\* C9: while the session is READY, tasks://{task_id} returns the object
\* {id, description, progress} of the stored row when a row with that id
\* exists and the payload {error: "Task not found", id} when none does, never
\* an error, and the lookup changes neither the file nor the connection.
C9_GetTask ==
    [][ \A id \in TaskIds :
          (last'.op = "get_task" /\ last'.task_id = id /\ session = "READY")
          => /\ \A r \in conn.rows :
                   r.id = id
                   => last'.result = [kind |-> "JsonTask", id |-> id,
                                      description |-> r.description,
                                      progress |-> r.progress]
             /\ id \notin Ids(conn.rows)
                => last'.result = [kind |-> "JsonError", error |-> "Task not found",
                                   id |-> id]
             /\ last'.result.kind # "raise"
             /\ UNCHANGED <<disk, conn, _db, ctx, session>>
      ]_vars

\* C9 witness: a lookup returned a stored task with the progress an update
\* gave it.
C9_Witness ==
    /\ last.op = "get_task"
    /\ session = "READY"
    /\ last.result.kind = "JsonTask"
    /\ last.result.progress = 150
    /\ last.result.description = "write spec"
    /\ Cardinality(conn.rows) >= 2

\* C10: config://task-priorities returns exactly {low: 0, medium: 1, high: 2}
\* whatever the store holds and whether the session is READY or
\* UNINITIALIZED, and it changes neither the file, the connection nor the
\* references to it.
C10_Priorities ==
    [][ last'.op = "task_priorities"
        => /\ last'.result = [kind |-> "JsonPriorities", low |-> 0, medium |-> 1,
                              high |-> 2]
           /\ UNCHANGED <<disk, conn, _db, ctx, session, everIds, deletedIds, returned>>
      ]_vars

\* C10 witness: the priorities were read with the session UNINITIALIZED and
\* tasks in the file.
C10_Witness ==
    /\ last.op = "task_priorities"
    /\ session = "UNINITIALIZED"
    /\ _db = "None"
    /\ disk.rows # {}

\* The write tools and the reads.
WriteOps == {"add_task", "update_task", "delete_task"}
ReadOps == {"list_tasks", "get_all_tasks", "get_task"}

\* C11: each write call is its own durability boundary when requests
\* interleave on the shared connection: no transaction holds the statements
\* of two calls, a commit commits the statement of the call that runs it and
\* of no other, and a call that waits for its own commit has not been
\* committed by another. The code shares one connection and one implicit
\* transaction, so the first db.commit() commits every call's statement.
C11_OwnCommitOnly ==
    /\ Cardinality(txn) <= 1
    /\ done.others = {}
    /\ \A s \in Slots : reqs[s].pc = "commit" => ~reqs[s].committed

\* C12: every read returns the committed state and never the effect of a
\* write whose commit has not happened. The code reads through the connection
\* that holds the uncommitted statements.
C12_ReadsCommitted ==
    done.op \in ReadOps => ~done.dirty

\* C13: a write call that reports a failure to its caller leaves none of its
\* change in the store. In the code a call whose statement another call's
\* commit has made durable can still fail at its own db.commit().
C13_FailedWriteLeavesNothing ==
    (done.op \in WriteOps /\ last.op = done.op /\ last.result.kind = "raise")
    => ~(done.changed /\ done.committed)

\* C14: the session has the two states UNINITIALIZED (_db is None, no open
\* connection) and READY (_db refers to the one open connection) and no
\* other. The code closes the connection at await db.close() and clears _db
\* only after it, so a third state lies between them.
C14_TwoStates ==
    /\ session \in {"UNINITIALIZED", "READY"}
    /\ session = "READY" => (_db = "conn" /\ ctx = "conn" /\ conn.state = "open")
    /\ session = "UNINITIALIZED" => (_db = "None" /\ conn.state # "open")

\* C17: whenever _db is not None it refers to an open connection, and no
\* handler runs a statement on a connection that is closed or None. The code
\* leaves _db on the closed connection during shutdown, and handlers in
\* flight keep the reference they took.
C17_OpenConnectionOnly ==
    /\ _db # "None" => conn.state = "open"
    /\ ~done.badconn

\* C18: under any interleaving of add_task calls each call returns the id of
\* the row its own INSERT made, a stored row with that id holds the call's
\* description, and no two adds, returned or in flight, have the same id.
C18_AddReturnsOwnId ==
    /\ (last.op = "add_task" /\ last.result.kind = "Added")
       => /\ done.op = "add_task"
          /\ last.result.id = done.rid
          /\ last.result.id > 0
          /\ \A r \in disk.rows \cup conn.rows :
                r.id = last.result.id => r.description = last.description
    /\ \A i, j \in 1..Len(returned) : i # j => returned[i] # returned[j]
    /\ \A s \in Slots :
          (reqs[s].op = "add_task" /\ reqs[s].pc = "commit")
          => /\ reqs[s].lastrowid \notin Range(returned)
             /\ \A t \in Slots \ {s} :
                   reqs[t].op = "add_task" => reqs[t].lastrowid # reqs[s].lastrowid
             /\ \A r \in conn.rows :
                   r.id = reqs[s].lastrowid => r.description = reqs[s].description

\* C18 witness: two adds with different descriptions ran their INSERTs one
\* after the other, the second returned first, and the first returned the id
\* of its own row.
C18_Witness ==
    /\ returned = <<2, 1>>
    /\ last.op = "add_task"
    /\ last.result = AddedText(1, "write spec")
    /\ Row(1, "write spec", 0) \in disk.rows
    /\ Row(2, "", 0) \in disk.rows

\* The ids whose row is not the same in the two sets of rows: created, removed
\* or holding another description or progress.
ChangedIds(before, after) ==
    {i \in Ids(before) \cup Ids(after) :
        {r \in before : r.id = i} # {r \in after : r.id = i}}

\* The one row a call may touch: the row an add created, the row an update or
\* a delete names when it reports success, and no row otherwise.
TargetIds(call) ==
    IF call.op = "add_task" /\ call.result.kind = "Added" THEN {call.result.id}
    ELSE IF call.op = "update_task" /\ call.result.kind = "Updated" THEN {call.task_id}
    ELSE IF call.op = "delete_task" /\ call.result.kind = "Deleted" THEN {call.task_id}
    ELSE {}

\* C15: each add, update and delete affects exactly one row, or none when the
\* update or delete names an absent id (and no other step affects any): every
\* other task keeps its id, description and progress, an add and a delete
\* change exactly the row they report, and no step changes the description of
\* a task that stays in the store.
C15_OneRowFrame ==
    [][ LET changed == ChangedIds(disk.rows, disk'.rows) IN
        /\ changed \subseteq TargetIds(last')
        /\ Cardinality(changed) <= 1
        /\ last'.op \in {"add_task", "delete_task"} => changed = TargetIds(last')
        /\ \A r \in disk.rows : \A q \in disk'.rows :
               r.id = q.id => r.description = q.description
        /\ UniqueIds(disk'.rows)
      ]_vars

\* C15 witness: an update succeeded on a store of at least two tasks, its
\* task holds the new progress and another task holds a different one.
C15_Witness ==
    /\ last.op = "update_task"
    /\ last.result.kind = "Updated"
    /\ \E r \in disk.rows : r.id = last.task_id /\ r.progress = last.progress
    /\ \E r \in disk.rows : r.id # last.task_id /\ r.progress # last.progress

\* The sequence lists its records by strictly ascending id.
AscendingIds(tasks) ==
    \A i \in 1..Len(tasks) : \A j \in 1..Len(tasks) :
        i < j => tasks[i].id < tasks[j].id

\* The sequence holds each of the rows exactly once and nothing else.
EachOnce(tasks, rows) ==
    /\ Len(tasks) = Cardinality(rows)
    /\ Range(tasks) = rows

\* C16: list_tasks and tasks://all return the stored tasks in ascending id
\* order, each stored task exactly once; list_tasks returns 'No tasks found.'
\* exactly when the store is empty.
C16_AscendingEachOnce ==
    /\ last.op = "list_tasks" =>
          /\ last.result.kind \in {"NoTasks", "Lines"}
          /\ last.result.kind = "NoTasks" <=> disk.rows = {}
          /\ last.result.kind = "Lines" =>
                /\ AscendingIds(last.result.lines)
                /\ EachOnce(last.result.lines, disk.rows)
    /\ (last.op = "get_all_tasks" /\ session = "READY") =>
          /\ last.result.kind = "JsonList"
          /\ AscendingIds(last.result.payload)
          /\ EachOnce(last.result.payload, disk.rows)

\* C16 witness: list_tasks returned the tasks 1 and 3, in that order, of a
\* store from which task 2 was deleted.
C16_Witness ==
    /\ last.op = "list_tasks"
    /\ last.result.kind = "Lines"
    /\ Len(last.result.lines) = 2
    /\ last.result.lines[1].id = 1
    /\ last.result.lines[2].id = 3
    /\ 2 \in deletedIds

\* The records a list_tasks text describes, in its order.
ListRecords(result) == IF result.kind = "Lines" THEN result.lines ELSE <<>>

\* C19: tools and resources see one and the same store. While the session is
\* READY the lifespan context's db and _db are the same connection; tasks://all
\* read right after list_tasks, or list_tasks right after tasks://all, describe
\* the same records in the same order; and a write made through a tool is
\* visible to the resource read that follows it.
C19_SameStore ==
    [][ /\ session' = "READY" => (_db' # "None" /\ _db' = ctx')
        /\ (last.op = "list_tasks" /\ last'.op = "get_all_tasks") =>
              /\ last'.result.kind = "JsonList"
              /\ last'.result.payload = ListRecords(last.result)
        /\ (last.op = "get_all_tasks" /\ last'.op = "list_tasks") =>
              /\ last.result.kind = "JsonList"
              /\ ListRecords(last'.result) = last.result.payload
        /\ (last.op \in WriteOps /\ last.result.kind # "raise"
               /\ last'.op = "get_all_tasks") =>
              /\ last'.result.kind = "JsonList"
              /\ Range(last'.result.payload) = disk.rows
              /\ last.result.kind = "Added" =>
                    Row(last.result.id, last.description, 0) \in Range(last'.result.payload)
              /\ last.result.kind = "Updated" =>
                    \E r \in Range(last'.result.payload) :
                        r.id = last.task_id /\ r.progress = last.progress
              /\ last.result.kind = "Deleted" =>
                    \A r \in Range(last'.result.payload) : r.id # last.task_id
        /\ (last.op = "update_task" /\ last.result.kind = "Updated"
               /\ last'.op = "get_task" /\ last'.task_id = last.task_id) =>
              /\ last'.result.kind = "JsonTask"
              /\ last'.result.progress = last.progress
      ]_vars

\* C19 witness: tasks://all, read through _db on a READY session, returned two
\* tasks written through the tools: one updated to 150, after task 2 was
\* deleted.
C19_Witness ==
    /\ session = "READY"
    /\ _db = ctx
    /\ last.op = "get_all_tasks"
    /\ last.result.kind = "JsonList"
    /\ Len(last.result.payload) = 2
    /\ \E r \in Range(last.result.payload) : r.progress = 150
    /\ 2 \in deletedIds

====
